---------------------------- MODULE Spec2Model ----------------------------
(***************************************************************************)
(* Model of sdxl_prompt_styler.py: the style-template loader               *)
(* (load_styles_from_directory) and the two prompt combiners               *)
(* (read_sdxl_templates_replace_and_combine and its advanced variant).     *)
(*                                                                         *)
(* Python strings are sequences of one-character strings, so that          *)
(* str.replace, str.split, str.strip, the `in` substring test and the      *)
(* f-string formatting are computed character by character.                *)
(*                                                                         *)
(* A JSON value that can occur as an element of a template list is a       *)
(* record [kind, keys, name, prompt, negative_prompt]:                     *)
(*   kind = "dict": a JSON object; keys is the set of its keys among       *)
(*                  name/prompt/negative_prompt, and the three fields      *)
(*                  hold the values of the keys present (<<>> if absent);  *)
(*   kind = "str" : a JSON string; keys is the set of field names that     *)
(*                  occur in it as substrings (what `'name' in item`       *)
(*                  tests on a str);                                       *)
(*   kind = "num" : a JSON number, on which `in` raises TypeError.         *)
(***************************************************************************)
EXTENDS Integers, Sequences, FiniteSets, TLC

VARIABLES
    \* ---- combiners: one call of the core API
    request,            \* the arguments of the call
    result,             \* what the call returned (or that it raised)
    \* ---- loader: load_styles_from_directory, called by INPUT_TYPES
    directory,          \* the files of the directory, in os.listdir order
    pc,                 \* position of the loader
    file_index,         \* index in json_files of the file being handled
    item_index,         \* index in json_data of the item being handled
    json_data,          \* content of the file being handled
    combined_data,      \* local combined_data
    seen,               \* local seen
    returned            \* what each call of the loader returned, in call order

combine_vars == <<request, result>>
load_vars == <<directory, pc, file_index, item_index, json_data, combined_data,
               seen, returned>>
vars == <<request, result, directory, pc, file_index, item_index, json_data,
          combined_data, seen, returned>>

---------------------------------------------------------------------------
(* Bounds of the model *)

\* longest template list handed to a combiner
MaxStore == 2
\* most files in the directory
MaxFiles == 2
\* most calls of the loader on the same directory
MaxCalls == 2

---------------------------------------------------------------------------
(* Python str operations *)

\* the literal '{prompt}'
Placeholder == <<"{", "p", "r", "o", "m", "p", "t", "}">>
\* the literal " . "
Separator == <<" ", ".", " ">>
\* the literal ", "
CommaSpace == <<",", " ">>
\* the literal ","
Comma == <<",">>
\* the literal "_"
Underscore == <<"_">>

\* bool(s) of a str
Truthy(s) == s # <<>>

StartsWith(s, p) == Len(p) <= Len(s) /\ SubSeq(s, 1, Len(p)) = p

\* p in s, for strs
Contains(s, p) == \E i \in 1..(Len(s) - Len(p) + 1) : SubSeq(s, i, i + Len(p) - 1) = p

\* s.replace(old, new), old non-empty: left to right, non-overlapping
RECURSIVE Replace(_, _, _)
Replace(s, old, new) ==
    IF s = <<>> THEN <<>>
    ELSE IF StartsWith(s, old)
         THEN new \o Replace(SubSeq(s, Len(old) + 1, Len(s)), old, new)
         ELSE <<Head(s)>> \o Replace(Tail(s), old, new)

\* index of the first occurrence of p in s (s contains p)
FirstIndex(s, p) ==
    CHOOSE i \in 1..(Len(s) - Len(p) + 1) :
        /\ SubSeq(s, i, i + Len(p) - 1) = p
        /\ \A j \in 1..(i - 1) : SubSeq(s, j, j + Len(p) - 1) # p

\* s.split(sep, 1), for s containing sep
SplitOnce(s, sep) ==
    LET i == FirstIndex(s, sep)
    IN <<SubSeq(s, 1, i - 1), SubSeq(s, i + Len(sep), Len(s))>>

\* s.split(sep): always at least one piece
RECURSIVE Split(_, _)
Split(s, sep) ==
    IF Contains(s, sep)
    THEN LET p == SplitOnce(s, sep) IN <<p[1]>> \o Split(p[2], sep)
    ELSE <<s>>

IsSpace(c) == c = " "

RECURSIVE LStrip(_)
LStrip(s) == IF s # <<>> /\ IsSpace(Head(s)) THEN LStrip(Tail(s)) ELSE s

RECURSIVE RStrip(_)
RStrip(s) ==
    IF s # <<>> /\ IsSpace(s[Len(s)]) THEN RStrip(SubSeq(s, 1, Len(s) - 1)) ELSE s

\* s.strip()
Strip(s) == RStrip(LStrip(s))

\* sep.join(tokens)
RECURSIVE Join(_, _)
Join(tokens, sep) ==
    IF tokens = <<>> THEN <<>>
    ELSE IF Len(tokens) = 1 THEN tokens[1]
    ELSE tokens[1] \o sep \o Join(Tail(tokens), sep)

\* list(map(lambda x: x.strip(), tokens))
StripAll(tokens) == [i \in 1..Len(tokens) |-> Strip(tokens[i])]

\* x in list
InList(x, list) == \E i \in 1..Len(list) : list[i] = x

\* list.remove(x), x in list: drops the first occurrence only
ListRemove(list, x) ==
    LET i == CHOOSE k \in 1..Len(list) : list[k] = x /\ \A j \in 1..(k - 1) : list[j] # x
    IN SubSeq(list, 1, i - 1) \o SubSeq(list, i + 1, Len(list))

\* str(n) of a non-negative int
DigitChars == <<"0", "1", "2", "3", "4", "5", "6", "7", "8", "9">>
RECURSIVE IntToStr(_)
IntToStr(n) ==
    IF n < 10 THEN <<DigitChars[n + 1]>>
    ELSE IntToStr(n \div 10) \o <<DigitChars[(n % 10) + 1]>>

---------------------------------------------------------------------------
(* JSON values *)

FieldNames == {"name", "prompt", "negative_prompt"}

Dict(keys, n, p, np) ==
    [kind |-> "dict", keys |-> keys, name |-> n, prompt |-> p, negative_prompt |-> np]
StrItem(keys) ==
    [kind |-> "str", keys |-> keys, name |-> <<>>, prompt |-> <<>>, negative_prompt |-> <<>>]
NumItem ==
    [kind |-> "num", keys |-> {}, name |-> <<>>, prompt |-> <<>>, negative_prompt |-> <<>>]

\* `key in item` raises TypeError
InRaises(item) == item.kind = "num"
\* `key in item`, when it does not raise
KeyIn(key, item) == key \in item.keys
\* item[key] evaluates (a dict that has the key); otherwise it raises
CanSubscript(item, key) == item.kind = "dict" /\ key \in item.keys
\* template.get('negative_prompt', "")
GetNegativePrompt(template) ==
    IF "negative_prompt" \in template.keys THEN template.negative_prompt ELSE <<>>

\* a value handed as json_data: a list of items, or something that is no list
ListValue(items) == [kind |-> "list", items |-> items]
NotAList == [kind |-> "other", items |-> <<>>]

\* sequences over S of length at most n
SeqsUpTo(S, n) == UNION {[1..k -> S] : k \in 0..n}

---------------------------------------------------------------------------
(* The combiners *)

\* outcome of a call: the returned tuple of strs, or an exception propagated
\* to the caller
Return(out) == [status |-> "ok", out |-> out]
Raise == [status |-> "raise", out |-> <<>>]

\* validate_json_data: "True", "False", or "raise" when `in` raises on an element
RECURSIVE ValidateFrom(_, _)
ValidateFrom(items, i) ==
    IF i > Len(items) THEN "True"
    ELSE IF InRaises(items[i]) THEN "raise"
    ELSE IF ~KeyIn("name", items[i]) \/ ~KeyIn("prompt", items[i]) THEN "False"
    ELSE ValidateFrom(items, i + 1)

ValidateJsonData(data) ==
    IF data.kind # "list" THEN "False" ELSE ValidateFrom(data.items, 1)

\* find_template_by_name: index of the first template with that name, 0 for
\* None, -1 when template['name'] raises before a match
RECURSIVE FindFrom(_, _, _)
FindFrom(items, template_name, i) ==
    IF i > Len(items) THEN 0
    ELSE IF ~CanSubscript(items[i], "name") THEN -1
    ELSE IF items[i].name = template_name THEN i
    ELSE FindFrom(items, template_name, i + 1)

FindTemplateByName(data, template_name) == FindFrom(data.items, template_name, 1)

\* split_template_advanced
SplitTemplateAdvanced(template) ==
    IF Contains(template, Separator)
    THEN LET p == SplitOnce(template, Separator) IN <<Strip(p[1]), Strip(p[2])>>
    ELSE <<template, <<>>>>

\* a merge that joins the two negative texts with ", " even when one is empty
ReplacePromptsAlwaysJoin(template, positive_prompt, negative_prompt) ==
    <<Replace(template.prompt, Placeholder, positive_prompt),
      GetNegativePrompt(template) \o CommaSpace \o negative_prompt>>

\* replace_prompts_in_template
ReplacePromptsInTemplate(template, positive_prompt, negative_prompt) ==
    LET positive_result == Replace(template.prompt, Placeholder, positive_prompt)
        json_negative_prompt == GetNegativePrompt(template)
        negative_result ==
            IF Truthy(json_negative_prompt) /\ Truthy(negative_prompt)
            THEN json_negative_prompt \o CommaSpace \o negative_prompt
            ELSE IF Truthy(json_negative_prompt) THEN json_negative_prompt
                 ELSE negative_prompt
    IN <<positive_result, negative_result>>

\* line 143: text_l_positive before the copy step
TextLPositive(template_prompt_l_template, positive_prompt_g, positive_prompt_l) ==
    LET replaced == Replace(template_prompt_l_template, Placeholder, positive_prompt_g)
    IN IF Truthy(template_prompt_l_template) /\ Truthy(positive_prompt_l)
       THEN replaced \o CommaSpace \o positive_prompt_l
       ELSE IF Truthy(replaced) THEN replaced ELSE positive_prompt_l

\* lines 150-152: for token_g in token_positive_g: if token_g in
\* token_positive_l: token_positive_l.remove(token_g)
RECURSIVE Deduplicate(_, _, _)
Deduplicate(token_positive_g, token_positive_l, i) ==
    IF i > Len(token_positive_g) THEN token_positive_l
    ELSE IF InList(token_positive_g[i], token_positive_l)
         THEN Deduplicate(token_positive_g,
                          ListRemove(token_positive_l, token_positive_g[i]), i + 1)
         ELSE Deduplicate(token_positive_g, token_positive_l, i + 1)

\* lines 145-156: the copy-to-local step
CopyToL(text_g_positive, text_l_positive, template_prompt_l_template, positive_prompt_g, copy_to_l) ==
    IF copy_to_l /\ Truthy(positive_prompt_g)
       /\ ~Contains(template_prompt_l_template, Placeholder)
    THEN LET token_positive_g == StripAll(Split(text_g_positive, Comma))
             token_positive_l == StripAll(Split(text_l_positive, Comma))
         IN Join(token_positive_g \o Deduplicate(token_positive_g, token_positive_l, 1),
                 CommaSpace)
    ELSE text_l_positive

\* a routing with the two single-channel targets exchanged
RouteNegativeSwapped(text_negative, negative_prompt_to) ==
    <<IF negative_prompt_to \in {"Both", "L only"} THEN text_negative ELSE <<>>,
      IF negative_prompt_to \in {"Both", "G only"} THEN text_negative ELSE <<>>>>

\* lines 163-169: routing of text_negative to the G and the L output
RouteNegative(text_negative, negative_prompt_to) ==
    <<IF negative_prompt_to \in {"Both", "G only"} THEN text_negative ELSE <<>>,
      IF negative_prompt_to \in {"Both", "L only"} THEN text_negative ELSE <<>>>>

\* replace_prompts_in_template_advanced
ReplacePromptsInTemplateAdvanced(template, positive_prompt_g, positive_prompt_l, negative_prompt, negative_prompt_to, copy_to_l) ==
    LET split == SplitTemplateAdvanced(template.prompt)
        template_prompt_g == split[1]
        template_prompt_l_template == split[2]
        text_g_positive == Replace(template_prompt_g, Placeholder, positive_prompt_g)
        text_l_step3 == TextLPositive(template_prompt_l_template, positive_prompt_g,
                                      positive_prompt_l)
        text_l_positive == CopyToL(text_g_positive, text_l_step3,
                                   template_prompt_l_template, positive_prompt_g,
                                   copy_to_l)
        text_positive ==
            IF Truthy(text_l_positive)
            THEN text_g_positive \o Separator \o text_l_positive
            ELSE text_g_positive
        json_negative_prompt == GetNegativePrompt(template)
        text_negative ==
            IF Truthy(json_negative_prompt) /\ Truthy(negative_prompt)
            THEN json_negative_prompt \o CommaSpace \o negative_prompt
            ELSE IF Truthy(json_negative_prompt) THEN json_negative_prompt
                 ELSE negative_prompt
        routed == RouteNegative(text_negative, negative_prompt_to)
    IN <<text_g_positive, text_l_positive, text_positive, routed[1], routed[2],
         text_negative>>

\* read_sdxl_templates_replace_and_combine
ReadSdxlTemplatesReplaceAndCombine(data, template_name, positive_prompt, negative_prompt) ==
    LET valid == ValidateJsonData(data)
        found == FindTemplateByName(data, template_name)
    IN IF valid = "raise" THEN Raise
       ELSE IF valid = "False" THEN Return(<<positive_prompt, negative_prompt>>)
       ELSE IF found = -1 THEN Raise
       ELSE IF found > 0
            THEN Return(ReplacePromptsInTemplate(data.items[found], positive_prompt,
                                                 negative_prompt))
            ELSE Return(<<positive_prompt, negative_prompt>>)

\* lines 213 and 220: the tuple returned when no template is used
PassThroughAdvanced(positive_prompt_g, positive_prompt_l, negative_prompt) ==
    <<positive_prompt_g, positive_prompt_l,
      positive_prompt_g \o Separator \o positive_prompt_l,
      negative_prompt, negative_prompt, negative_prompt>>

\* read_sdxl_templates_replace_and_combine_advanced
ReadSdxlTemplatesReplaceAndCombineAdvanced(data, template_name, positive_prompt_g, positive_prompt_l, negative_prompt, negative_prompt_to, copy_to_l) ==
    LET valid == ValidateJsonData(data)
        found == FindTemplateByName(data, template_name)
    IN IF valid = "raise" THEN Raise
       ELSE IF valid = "False"
            THEN Return(PassThroughAdvanced(positive_prompt_g, positive_prompt_l,
                                            negative_prompt))
       ELSE IF found = -1 THEN Raise
       ELSE IF found > 0
            THEN Return(ReplacePromptsInTemplateAdvanced(
                            data.items[found], positive_prompt_g, positive_prompt_l,
                            negative_prompt, negative_prompt_to, copy_to_l))
            ELSE Return(PassThroughAdvanced(positive_prompt_g, positive_prompt_l,
                                            negative_prompt))

---------------------------------------------------------------------------
(* Inputs of the combiners *)

NameA == <<"A">>
NameB == <<"B">>
Cat == <<"c", "a", "t">>
Red == <<"r", "e", "d">>
Dog == <<"d", "o", "g">>
Sitting == <<"s", "i", "t", "t", "i", "n", "g">>
RedCat == Red \o CommaSpace \o Cat
RedDog == Red \o CommaSpace \o Dog
N1 == <<"n", "1">>
N2 == <<"n", "2">>

\* "G {prompt} . L {prompt}"
PromptGL == <<"G", " ">> \o Placeholder \o Separator \o <<"L", " ">> \o Placeholder
\* "{prompt} . red"
PromptRed == Placeholder \o Separator \o Red
\* "G {prompt} . {prompt}"
PromptGP == <<"G", " ">> \o Placeholder \o Separator \o Placeholder
\* "a {prompt} b"
PromptAB == <<"a", " ">> \o Placeholder \o <<" ", "b">>

\* the elements a template list is built from
StoreItems ==
    { Dict(FieldNames, NameA, PromptGL, N1),
      Dict({"name", "prompt"}, NameA, PromptRed, <<>>),
      Dict(FieldNames, NameA, PromptGP, <<>>),
      Dict(FieldNames, NameB, PromptAB, N1),
      Dict({"name", "negative_prompt"}, NameA, <<>>, N1),
      Dict({"prompt", "negative_prompt"}, <<>>, PromptAB, N1),
      StrItem(FieldNames),
      NumItem }

Stores == {NotAList} \cup {ListValue(items) : items \in SeqsUpTo(StoreItems, MaxStore)}

TemplateNames == {NameA, NameB}
PositiveTexts == {<<>>, Cat, RedCat}
PositiveLTexts == {<<>>, Sitting, RedDog}
NegativeTexts == {<<>>, N2}
NegativeTargets == {"Both", "G only", "L only"}

BasicRequests ==
    [op : {"basic"}, data : Stores, template_name : TemplateNames,
     positive_prompt : PositiveTexts, positive_prompt_l : {<<>>},
     negative_prompt : NegativeTexts, negative_prompt_to : {"Both"},
     copy_to_l : {FALSE}]

AdvancedRequests ==
    [op : {"advanced"}, data : Stores, template_name : TemplateNames,
     positive_prompt : PositiveTexts, positive_prompt_l : PositiveLTexts,
     negative_prompt : NegativeTexts, negative_prompt_to : NegativeTargets,
     copy_to_l : BOOLEAN]

Pending == [status |-> "pending", out |-> <<>>]

---------------------------------------------------------------------------
(* The loader at rest: nothing loaded, an empty directory *)

LoaderAtRest(dir) ==
    /\ directory = dir
    /\ pc = "idle"
    /\ file_index = 0
    /\ item_index = 0
    /\ json_data = <<>>
    /\ combined_data = <<>>
    /\ seen = {}
    /\ returned = <<>>

---------------------------------------------------------------------------
(* Specification of the combiners: a request is drawn, then served *)

InitCombine ==
    /\ request \in BasicRequests \cup AdvancedRequests
    /\ result = Pending
    /\ LoaderAtRest(<<>>)

\* combine_basic
CombineBasic ==
    /\ result = Pending
    /\ request.op = "basic"
    /\ result' = ReadSdxlTemplatesReplaceAndCombine(
                     request.data, request.template_name, request.positive_prompt,
                     request.negative_prompt)
    /\ UNCHANGED <<request, load_vars>>

\* combine_advanced
CombineAdvanced ==
    /\ result = Pending
    /\ request.op = "advanced"
    /\ result' = ReadSdxlTemplatesReplaceAndCombineAdvanced(
                     request.data, request.template_name, request.positive_prompt,
                     request.positive_prompt_l, request.negative_prompt,
                     request.negative_prompt_to, request.copy_to_l)
    /\ UNCHANGED <<request, load_vars>>

NextCombine == CombineBasic \/ CombineAdvanced

SpecCombine == InitCombine /\ [][NextCombine]_vars

---------------------------------------------------------------------------
(* The loader *)

\* A file of the directory: [is_json, readable, kind, items].
\*   is_json : its name ends in .json and it is a regular file
\*   readable: os.access(file_path, os.R_OK)
\*   kind    : "unparseable" (json.load raises), "scalar" (a JSON number, null
\*             or boolean at top level) or "list" (a JSON array of items)
File(is_json, readable, kind, items) ==
    [is_json |-> is_json, readable |-> readable, kind |-> kind, items |-> items]

\* what read_json_file returns: None, or the content
None == [none |-> TRUE, items |-> <<>>]
Content(items) == [none |-> FALSE, items |-> items]

\* read_json_file
ReadJsonFile(file) ==
    IF ~file.readable THEN None
    ELSE IF file.kind = "unparseable" THEN None        \* json.load raises, caught
    ELSE IF file.kind = "scalar" THEN None             \* not iterable: TypeError, caught
    ELSE IF \E i \in 1..Len(file.items) : InRaises(file.items[i])
         THEN None                                     \* `in` raises, caught
    ELSE IF ~\A i \in 1..Len(file.items) :
                 /\ KeyIn("name", file.items[i])
                 /\ KeyIn("prompt", file.items[i])
                 /\ KeyIn("negative_prompt", file.items[i])
         THEN None
    ELSE Content(file.items)

\* `if json_data:` : neither None nor an empty list
JsonDataTruthy(data) == ~data.none /\ data.items # <<>>

\* get_all_json_files
GetAllJsonFiles(dir) == SelectSeq(dir, LAMBDA f : f.is_json)

\* lines 57-61: the name given to a style called original_style
RECURSIVE RenameLoop(_, _, _, _)
RenameLoop(original_style, style, suffix, seen_names) ==
    IF style \in seen_names
    THEN RenameLoop(original_style,
                    original_style \o Underscore \o IntToStr(suffix),
                    suffix + 1, seen_names)
    ELSE style

\* a renaming that tries the suffix 1 only
UniqueStyleOnce(original_style, seen_names) ==
    IF original_style \in seen_names
    THEN original_style \o Underscore \o IntToStr(1)
    ELSE original_style

UniqueStyle(original_style, seen_names) ==
    RenameLoop(original_style, original_style, 1, seen_names)

\* line 66
UniqueStyleNames(data) ==
    LET named == SelectSeq(data, LAMBDA item : item.kind = "dict" /\ "name" \in item.keys)
    IN [i \in 1..Len(named) |-> named[i].name]

\* what a call of load_styles_from_directory gives its caller
Loaded(data, names) == [status |-> "ok", combined_data |-> data, names |-> names]
LoadRaised == [status |-> "raise", combined_data |-> <<>>, names |-> <<>>]

json_files == GetAllJsonFiles(directory)

\* a call that starts with the names the previous call has seen
StartLoadKeepSeen ==
    /\ pc \in {"idle", "done", "error"}
    /\ Len(returned) < MaxCalls
    /\ pc' = "file"
    /\ file_index' = 1
    /\ item_index' = 0
    /\ json_data' = <<>>
    /\ combined_data' = <<>>
    /\ UNCHANGED <<seen, directory, returned, combine_vars>>

\* lines 48-50: a call starts
StartLoad ==
    /\ pc \in {"idle", "done", "error"}
    /\ Len(returned) < MaxCalls
    /\ pc' = "file"
    /\ file_index' = 1
    /\ item_index' = 0
    /\ json_data' = <<>>
    /\ combined_data' = <<>>
    /\ seen' = {}
    /\ UNCHANGED <<directory, returned, combine_vars>>

\* lines 52-54: the next file is read
ReadFile ==
    /\ pc = "file"
    /\ file_index <= Len(json_files)
    /\ LET data == ReadJsonFile(json_files[file_index])
       IN IF JsonDataTruthy(data)
          THEN /\ json_data' = data.items
               /\ item_index' = 1
               /\ pc' = "item"
               /\ UNCHANGED file_index
          ELSE /\ json_data' = <<>>
               /\ file_index' = file_index + 1
               /\ UNCHANGED <<item_index, pc>>
    /\ UNCHANGED <<directory, combined_data, seen, returned, combine_vars>>

\* lines 55-64: one item of the file is renamed and appended; item['name']
\* raises on an item that is no dict
ProcessItem ==
    /\ pc = "item"
    /\ LET item == json_data[item_index]
       IN IF ~CanSubscript(item, "name")
          THEN /\ pc' = "error"
               /\ returned' = Append(returned, LoadRaised)
               /\ UNCHANGED <<file_index, item_index, json_data, combined_data, seen>>
          ELSE LET style == UniqueStyle(item.name, seen)
               IN /\ combined_data' = Append(combined_data, [item EXCEPT !.name = style])
                  /\ seen' = seen \cup {style}
                  /\ IF item_index < Len(json_data)
                     THEN /\ item_index' = item_index + 1
                          /\ UNCHANGED <<pc, file_index, json_data>>
                     ELSE /\ pc' = "file"
                          /\ file_index' = file_index + 1
                          /\ item_index' = 0
                          /\ json_data' = <<>>
                  /\ UNCHANGED returned
    /\ UNCHANGED <<directory, combine_vars>>

\* lines 66-68: the call returns
FinishLoad ==
    /\ pc = "file"
    /\ file_index > Len(json_files)
    /\ pc' = "done"
    /\ returned' = Append(returned, Loaded(combined_data, UniqueStyleNames(combined_data)))
    /\ UNCHANGED <<directory, file_index, item_index, json_data, combined_data, seen,
                   combine_vars>>

(* Directories *)

NameA1 == NameA \o Underscore \o <<"1">>
RecordA == Dict(FieldNames, NameA, PromptAB, N1)
RecordA1 == Dict(FieldNames, NameA1, PromptGL, <<>>)
RecordB == Dict(FieldNames, NameB, PromptRed, N1)
RecordNoNegative == Dict({"name", "prompt"}, NameA, PromptAB, <<>>)
RecordNoPrompt == Dict({"name", "negative_prompt"}, NameB, <<>>, N1)

Files ==
    { File(TRUE, TRUE, "list", <<RecordA>>),
      File(TRUE, TRUE, "list", <<RecordA, RecordA>>),
      File(TRUE, TRUE, "list", <<RecordA1, RecordB>>),
      File(TRUE, TRUE, "list", <<RecordA, RecordA1>>),
      File(TRUE, TRUE, "list", <<RecordB, RecordNoNegative>>),
      File(TRUE, TRUE, "list", <<RecordNoPrompt>>),
      File(TRUE, TRUE, "list", <<RecordB, StrItem(FieldNames)>>),
      File(TRUE, TRUE, "list", <<RecordA, StrItem({"name"})>>),
      File(TRUE, TRUE, "list", <<RecordA, NumItem>>),
      File(TRUE, TRUE, "list", <<>>),
      File(TRUE, TRUE, "unparseable", <<>>),
      File(TRUE, TRUE, "scalar", <<>>),
      File(TRUE, FALSE, "list", <<RecordA>>),
      File(FALSE, TRUE, "list", <<RecordA>>) }

Directories == SeqsUpTo(Files, MaxFiles)

InitLoad ==
    /\ \E dir \in Directories : LoaderAtRest(dir)
    /\ request = [op |-> "none"]
    /\ result = Pending

NextLoad == StartLoad \/ ReadFile \/ ProcessItem \/ FinishLoad

SpecLoad == InitLoad /\ [][NextLoad]_vars

---------------------------------------------------------------------------
(* Properties of the loader *)

\* the items read_json_file hands to the loop for a file
AcceptedItems(file) ==
    LET data == ReadJsonFile(file)
    IN IF JsonDataTruthy(data) THEN data.items ELSE <<>>

RECURSIVE ItemsOfFiles(_, _)
ItemsOfFiles(files, k) ==
    IF k = 0 THEN <<>> ELSE ItemsOfFiles(files, k - 1) \o AcceptedItems(files[k])

\* the accepted records the running call has handled so far, as they are in
\* the files (before renaming), in order
ProcessedItems ==
    IF pc = "idle" THEN <<>>
    ELSE IF pc \in {"item", "error"}
         THEN ItemsOfFiles(json_files, file_index - 1) \o SubSeq(json_data, 1, item_index - 1)
         ELSE ItemsOfFiles(json_files, file_index - 1)

StoreNames == [i \in 1..Len(combined_data) |-> combined_data[i].name]
EarlierNames(i) == {combined_data[j].name : j \in 1..(i - 1)}
Suffixed(original, n) == original \o <<"_">> \o IntToStr(n)

\* C1: every accepted record, in order, gets its original name if no earlier
\* record has been given that name, and otherwise original_<n> for the
\* smallest n >= 1 such that original_<n> has not been given to an earlier
\* record; so the names of the store are pairwise distinct, a record is renamed
\* only when an earlier record holds its bare name, and two records named "A"
\* give the names ["A", "A_1"].
C1_CollisionRenaming ==
    /\ Len(combined_data) = Len(ProcessedItems)
    /\ \A i \in 1..Len(combined_data) :
           LET original == ProcessedItems[i].name
               assigned == combined_data[i].name
           IN /\ IF original \notin EarlierNames(i)
                 THEN assigned = original
                 ELSE \E n \in 1..i :
                          /\ assigned = Suffixed(original, n)
                          /\ assigned \notin EarlierNames(i)
                          /\ \A m \in 1..(n - 1) : Suffixed(original, m) \in EarlierNames(i)
              /\ assigned # original => \E j \in 1..(i - 1) : combined_data[j].name = original
    /\ \A i, j \in 1..Len(combined_data) :
           i # j => combined_data[i].name # combined_data[j].name
    /\ (Len(ProcessedItems) = 2 /\ ProcessedItems[1].name = <<"A">>
            /\ ProcessedItems[2].name = <<"A">>)
           => StoreNames = << <<"A">>, <<"A", "_", "1">> >>

\* C1 witness: a load of three records named "A", then a record named "A_1"
\* whose name has been given to the second of them
C1_Witness ==
    /\ pc = "done"
    /\ Len(ProcessedItems) = 4
    /\ \A i \in 1..3 : ProcessedItems[i].name = <<"A">>
    /\ ProcessedItems[4].name = <<"A", "_", "1">>
    /\ StoreNames = << <<"A">>, <<"A", "_", "1">>, <<"A", "_", "2">>,
                       <<"A", "_", "1", "_", "1">> >>

\* C10: every call of the loader on the unchanged directory returns what the
\* first call returned (the same ordered store and the same ordered names),
\* and the names a call returns are, element for element, the name fields of
\* the store it returns.
C10_LoadIdempotent ==
    \A k \in 1..Len(returned) :
        /\ returned[k] = returned[1]
        /\ Len(returned[k].names) = Len(returned[k].combined_data)
        /\ \A i \in 1..Len(returned[k].names) :
               returned[k].names[i] = returned[k].combined_data[i].name

\* C10 witness: a second call has returned a store with a suffixed name
C10_Witness ==
    /\ Len(returned) = 2
    /\ returned[2].status = "ok"
    /\ returned[2].names = << <<"A">>, <<"A", "_", "1">> >>

\* a file in the format of a template file: a readable, parseable .json file
\* holding an array of objects that each carry the fields of `required`
IsTemplateFile(file, required) ==
    /\ file.is_json
    /\ file.readable
    /\ file.kind = "list"
    /\ \A i \in 1..Len(file.items) :
           file.items[i].kind = "dict" /\ required \subseteq file.items[i].keys

RECURSIVE RecordsOfTemplateFiles(_, _, _)
RecordsOfTemplateFiles(dir, k, required) ==
    IF k = 0 THEN <<>>
    ELSE RecordsOfTemplateFiles(dir, k - 1, required)
         \o (IF IsTemplateFile(dir[k], required) THEN dir[k].items ELSE <<>>)

\* the same record up to its name
SameButName(a, b) == [a EXCEPT !.name = <<>>] = [b EXCEPT !.name = <<>>]

\* C8: loading is skip-and-continue: a file that is unreadable, unparseable or
\* not an array of records carrying the required fields contributes no record
\* and does not fail the load, and the store is the concatenation, in listing
\* order, of the records of the other files (up to renaming); with no valid
\* template the store and the name list are empty.
C8_SkipAndContinue ==
    /\ pc # "error"
    /\ pc = "done" =>
           LET expected == RecordsOfTemplateFiles(directory, Len(directory), FieldNames)
               last == returned[Len(returned)]
           IN /\ last.status = "ok"
              /\ Len(last.combined_data) = Len(expected)
              /\ Len(last.names) = Len(expected)
              /\ \A i \in 1..Len(expected) : SameButName(last.combined_data[i], expected[i])

\* C9: negative_prompt is optional in a template file: a parseable file whose
\* records all have name and prompt is accepted even when a record omits
\* negative_prompt, and all of its records are in the store.
C9_NegativePromptOptional ==
    (pc = "done" /\ returned[Len(returned)].status = "ok") =>
        LET expected == RecordsOfTemplateFiles(directory, Len(directory),
                                               {"name", "prompt"})
        IN /\ Len(combined_data) = Len(expected)
           /\ \A i \in 1..Len(expected) : SameButName(combined_data[i], expected[i])

---------------------------------------------------------------------------
(* Properties of the combiners *)

\* the call has ended
Served == result # Pending

\* the call has returned and a template was found for it
Found ==
    /\ Served
    /\ result.status = "ok"
    /\ ValidateJsonData(request.data) = "True"
    /\ FindTemplateByName(request.data, request.template_name) > 0

FoundTemplate ==
    request.data.items[FindTemplateByName(request.data, request.template_name)]

\* "both non-empty: comma-join; else whichever is non-empty; else empty"
MergeRule(a, b) ==
    IF a # <<>> /\ b # <<>> THEN a \o <<",", " ">> \o b
    ELSE IF a # <<>> THEN a
    ELSE IF b # <<>> THEN b
    ELSE <<>>

EndsWith(s, p) == Len(p) <= Len(s) /\ SubSeq(s, Len(s) - Len(p) + 1, Len(s)) = p

\* the combined negative output of the call
NegativeOut == IF request.op = "basic" THEN result.out[2] ELSE result.out[6]

\* C2: for a found template, in the basic and in the advanced combiner, the
\* combined negative output is "<template_negative>, <user_negative>" when
\* both are non-empty, the non-empty one when exactly one is, and the empty
\* string when both are empty; it neither starts nor ends with ", ".
C2_NegativeMerge ==
    Found =>
        /\ NegativeOut = MergeRule(FoundTemplate.negative_prompt, request.negative_prompt)
        /\ ~StartsWith(NegativeOut, <<",", " ">>)
        /\ ~EndsWith(NegativeOut, <<",", " ">>)

\* C2 witness: the basic combiner has found a template with the negative text
\* "n1" and merged it with the user's "n2"
C2_Witness ==
    /\ Found
    /\ request.op = "basic"
    /\ FoundTemplate.negative_prompt = <<"n", "1">>
    /\ request.negative_prompt = <<"n", "2">>
    /\ result.out[2] = <<"n", "1", ",", " ", "n", "2">>

\* some record of the store lacks name or prompt, or the store is no sequence
FailsValidation(data) ==
    \/ data.kind # "list"
    \/ \E i \in 1..Len(data.items) :
           /\ data.items[i].kind = "dict"
           /\ ~({"name", "prompt"} \subseteq data.items[i].keys)

\* no template of the store has exactly that name
NoTemplateNamed(data, template_name) ==
    ~\E i \in 1..Len(data.items) :
         /\ data.items[i].kind = "dict"
         /\ "name" \in data.items[i].keys
         /\ data.items[i].name = template_name

\* C3: combine_basic is the identity when no substitution applies: if the
\* store fails structural validation or no template has the requested name,
\* the result is exactly the original (positive, negative) pair.
C3_PassThroughIdentity ==
    (/\ request.op = "basic"
     /\ Served
     /\ \/ FailsValidation(request.data)
        \/ NoTemplateNamed(request.data, request.template_name))
        => result = Return(<<request.positive_prompt, request.negative_prompt>>)

\* the selector decides the two channel outputs of the returned tuple
RoutingRule ==
    /\ request.negative_prompt_to = "G only" => result.out[5] = <<>>
    /\ request.negative_prompt_to = "L only" => result.out[4] = <<>>
    /\ request.negative_prompt_to = "Both" =>
           result.out[4] = result.out[6] /\ result.out[5] = result.out[6]

\* C4 as stated: for every invocation of combine_advanced that returns, found
\* template or not, "G only" leaves the local negative output empty, "L only"
\* leaves the global negative output empty, and "Both" gives both the combined
\* negative output.
C4_RoutingEveryInvocation ==
    (request.op = "advanced" /\ Served /\ result.status = "ok") => RoutingRule

\* C4 amended: the selector decides the two channel outputs in every
\* invocation of combine_advanced in which a template is found; when the call
\* returns without a template, all three negative outputs are the user's
\* negative text, whatever the selector.
C4_RoutingWhenFound ==
    /\ (request.op = "advanced" /\ Found) => RoutingRule
    /\ (request.op = "advanced" /\ Served /\ result.status = "ok" /\ ~Found) =>
           /\ result.out[4] = request.negative_prompt
           /\ result.out[5] = request.negative_prompt
           /\ result.out[6] = request.negative_prompt

\* C4 witness: a found template, "G only", a non-empty combined negative text
\* in the global output and nothing in the local one
C4_Witness ==
    /\ request.op = "advanced"
    /\ Found
    /\ request.negative_prompt_to = "G only"
    /\ result.out[6] = <<"n", "1", ",", " ", "n", "2">>
    /\ result.out[4] = result.out[6]
    /\ result.out[5] = <<>>

\* the local part of the found template, and it with the placeholder replaced
\* by the positive-global text
TemplateL == SplitTemplateAdvanced(FoundTemplate.prompt)[2]
SubstitutedL == Replace(TemplateL, Placeholder, request.positive_prompt)

\* C5: in the advanced combiner, for a found template and without the
\* copy-to-local step, the local positive text is the merge of s (template_l
\* with the placeholder replaced by the positive-global text) and the
\* positive-local text: "s, <positive_l>" if both are non-empty, the
\* non-empty one if exactly one is, the empty string if both are empty.
C5_LocalPositiveMerge ==
    (request.op = "advanced" /\ Found /\ ~request.copy_to_l) =>
        result.out[2] = MergeRule(SubstitutedL, request.positive_prompt_l)

\* the comma-split, trimmed tokens of a text
Tokens(text) == StripAll(Split(text, <<",">>))

\* the three conditions of the copy-to-local step
CopyApplies ==
    /\ request.copy_to_l
    /\ request.positive_prompt # <<>>
    /\ ~Contains(TemplateL, Placeholder)

\* the local positive text as step 3 leaves it
Step3Local == TextLPositive(TemplateL, request.positive_prompt, request.positive_prompt_l)

\* C6: when copy_to_l is true, the positive-global text is non-empty and
\* template_l has no placeholder, the local positive text is the tokens of
\* text_g_positive in order, followed by exactly those tokens of the step-3
\* local text that equal no global token, joined with ", "; otherwise it is
\* left as step 3 produced it.
C6_CopyToLocalDedup ==
    (request.op = "advanced" /\ Found) =>
        IF CopyApplies
        THEN LET global == Tokens(result.out[1])
                 kept == SelectSeq(Tokens(Step3Local), LAMBDA t : ~InList(t, global))
             IN result.out[2] = Join(global \o kept, <<",", " ">>)
        ELSE result.out[2] = Step3Local

\* C7: no request fails: whatever the store (well-formed, no sequence, or a
\* sequence with elements that lack name or prompt or are no records), every
\* call returns a tuple of strings, 2 for basic and 6 for advanced, and never
\* ends in an exception.
C7_NoRequestFails ==
    Served =>
        /\ result.status = "ok"
        /\ Len(result.out) = IF request.op = "basic" THEN 2 ELSE 6

===========================================================================
